---- MODULE Spec2Model ----
(***************************************************************************)
(* A model of frunk's proc-macro helpers (proc-macro-helpers/src/lib.rs).  *)
(*                                                                         *)
(* The helpers are pure functions from syntax fragments to generated       *)
(* fragments.  Each one is an operator below, computed the way the code    *)
(* computes it, and each component has a specification whose actions call  *)
(* the helper on inputs drawn from bounded sets and record its result.     *)
(*                                                                         *)
(* Representation.  A char is its Unicode scalar value (a number); an      *)
(* Ident is its string, a sequence of chars, so "_uc" is <<95, 117, 99>>.  *)
(* A quote! template is the tuple of its tokens in template order, with    *)
(* an interpolated #x standing where the template has it.                   *)
(***************************************************************************)
EXTENDS Integers, Sequences, FiniteSets, TLC

VARIABLES
    c, encoded,                              \* encode_as_ident(&c)
    ident, label, prev_ident, prev_label,    \* build_label_type(&ident), and the call before it
    type_items, hlist_type,                  \* build_hlist_type(items)
    constr_items, hlist_constr,              \* build_hlist_constr(items)
    path_expr, idents, path_type,            \* find_idents_in_expr / build_path_type(path_expr)
    fields, bindings, per_field, type_constr, \* FieldBindings::new(&fields), build_type_constr(f)
    generics, generics_ref                   \* ref_generics(&generics)

encode_vars   == <<c, encoded>>
label_vars    == <<ident, label, prev_ident, prev_label>>
hlist_vars    == <<type_items, hlist_type, constr_items, hlist_constr>>
path_vars     == <<path_expr, idents, path_type>>
fields_vars   == <<fields, bindings, per_field, type_constr>>
generics_vars == <<generics, generics_ref>>
vars == <<encode_vars, label_vars, hlist_vars, path_vars, fields_vars, generics_vars>>

(***************************************************************************)
(* Bounds of the model.                                                    *)
(***************************************************************************)
MaxChar == 255
MaxLen == 3
MaxItems == 3
MaxDepth == 3
MaxFields == 3
MaxParams == 3

\* The value of a result variable before the call that sets it.
NotCalled == <<>>

(***************************************************************************)
(* Sequence helpers: Iterator::flat_map(..).collect() and Iterator::rev(). *)
(***************************************************************************)
RECURSIVE Flatten(_)
Flatten(ss) == IF ss = <<>> THEN <<>> ELSE Head(ss) \o Flatten(Tail(ss))

Reverse(s) == [i \in 1..Len(s) |-> s[Len(s) + 1 - i]]

(***************************************************************************)
(* Identifier Encoder                                                      *)
(***************************************************************************)
\* 'a'..'z' and 'A'..'Z'
ALPHA_CHARS == (97..122) \cup (65..90)

\* '_' and '0'..'9'
UNDERSCORE_CHARS == {95} \cup (48..57)

\* Ident::new(s, Span::call_site()): the identifier spelled s.
call_site_ident(s) == s

\* char::from_digit(d, 16): '0'..'9', 'a'..'f'
HexDigit(d) == IF d < 10 THEN 48 + d ELSE 87 + d

\* The hexadecimal digits of n, most significant first, no leading zeros.
RECURSIVE Hex(_)
Hex(n) == IF n < 16 THEN <<HexDigit(n)>> ELSE Append(Hex(n \div 16), HexDigit(n % 16))

\* char::escape_unicode: the chars of \u{NNNN}
escape_unicode(ch) == <<92, 117, 123>> \o Hex(ch) \o <<125>>

\* char::is_alphanumeric, on the ASCII chars escape_unicode yields.
is_alphanumeric(ch) == ch \in (48..57) \cup (65..90) \cup (97..122)

RECURSIVE encode_as_ident(_)

\* A filter that keeps the hex digits alone: drops the u of \u{..}.
encode_as_ident_hexonly(ch) ==
    IF ch \in ALPHA_CHARS THEN <<call_site_ident(<<ch>>)>>
    ELSE IF ch \in UNDERSCORE_CHARS THEN <<call_site_ident(<<95, ch>>)>>
    ELSE
        LET hex_idents == Flatten([i \in 1..Len(Hex(ch)) |-> encode_as_ident(Hex(ch)[i])])
        IN  <<call_site_ident(<<95, 117, 99>>)>> \o hex_idents
                \o <<call_site_ident(<<117, 99, 95>>)>>

\* The hex idents returned as they are, not sandwiched.
encode_as_ident_unbracketed(ch) ==
    IF ch \in ALPHA_CHARS THEN <<call_site_ident(<<ch>>)>>
    ELSE IF ch \in UNDERSCORE_CHARS THEN <<call_site_ident(<<95, ch>>)>>
    ELSE
        LET delimited_hex == SelectSeq(escape_unicode(ch), is_alphanumeric)
        IN  Flatten([i \in 1..Len(delimited_hex) |-> encode_as_ident(delimited_hex[i])])

\* Digits and underscore emitted as they are, without the "_" prefix.
encode_as_ident_unprefixed(ch) ==
    IF ch \in ALPHA_CHARS THEN <<call_site_ident(<<ch>>)>>
    ELSE IF ch \in UNDERSCORE_CHARS THEN <<call_site_ident(<<ch>>)>>
    ELSE
        LET delimited_hex == SelectSeq(escape_unicode(ch), is_alphanumeric)
            hex_idents == Flatten([i \in 1..Len(delimited_hex) |-> encode_as_ident(delimited_hex[i])])
        IN  <<call_site_ident(<<95, 117, 99>>)>> \o hex_idents
                \o <<call_site_ident(<<117, 99, 95>>)>>

encode_as_ident(ch) ==
    IF ch \in ALPHA_CHARS THEN <<call_site_ident(<<ch>>)>>
    ELSE IF ch \in UNDERSCORE_CHARS THEN <<call_site_ident(<<95, ch>>)>>
    ELSE
        LET as_unicode == escape_unicode(ch)
            delimited_hex == SelectSeq(as_unicode, is_alphanumeric)
            hex_idents == Flatten([i \in 1..Len(delimited_hex) |-> encode_as_ident(delimited_hex[i])])
            book_ended == <<call_site_ident(<<95, 117, 99>>)>> \o hex_idents
        IN  Append(book_ended, call_site_ident(<<117, 99, 95>>))

(***************************************************************************)
(* Label Builder                                                           *)
(***************************************************************************)
\* quote! { ::frunk_core::labelled::chars::#ident }
LabelChar(id) == <<"::frunk_core::labelled::chars::", id>>

\* quote! { (#(#name_as_tokens),*) }: the tuple type of the encoded chars.
build_label_type(id) ==
    LET name == id
        name_as_idents == Flatten([i \in 1..Len(name) |-> encode_as_ident(name[i])])
    IN  [i \in 1..Len(name_as_idents) |-> LabelChar(name_as_idents[i])]

(***************************************************************************)
(* List-Type / Constructor Builder                                         *)
(***************************************************************************)
\* quote! { ::frunk_core::hlist::HNil }
HNil == <<"::frunk_core::hlist::HNil">>

\* quote! { ::frunk_core::hlist::HCons<#item, #result> }
HConsType(item, result) == <<"::frunk_core::hlist::HCons", "<", item, ",", result, ">">>

\* quote! { ::frunk_core::hlist::HCons { head: #item, tail: #result } }
HConsConstr(item, result) ==
    <<"::frunk_core::hlist::HCons", "{", "head", ":", item, ",", "tail", ":", result, "}">>

\* The loop of build_hlist_type over the items still to come.
RECURSIVE hlist_type_loop(_, _)
hlist_type_loop(iter, result) ==
    IF iter = <<>> THEN result
    ELSE hlist_type_loop(Tail(iter), HConsType(Head(iter), result))

\* The items taken first to last, without .rev().
build_hlist_type_forward(items) == hlist_type_loop(items, HNil)

build_hlist_type(items) == hlist_type_loop(Reverse(items), HNil)

\* The loop of build_hlist_constr over the items still to come.
RECURSIVE hlist_constr_loop(_, _)
hlist_constr_loop(iter, result) ==
    IF iter = <<>> THEN result
    ELSE hlist_constr_loop(Tail(iter), HConsConstr(Head(iter), result))

build_hlist_constr(items) == hlist_constr_loop(Reverse(items), HNil)

(***************************************************************************)
(* Path Builder                                                            *)
(***************************************************************************)
\* A call that returned v, and a call that panicked: a panic returns nothing.
Returned(v) == [value |-> v]
Panic(msg) == [panic |-> msg]
IsPanic(r) == "panic" \in DOMAIN r

\* syn::Expr, as far as go matches on it:
\*   Expr::Field { base, member }, member Member::Named(ident) or Member::Unnamed(index)
\*   Expr::Path  { path.segments }, each segment its ident
\*   any other variant, here Expr::Lit
ExprField(base, member) == [kind |-> "Field", base |-> base, member |-> member]
ExprPath(segments) == [kind |-> "Path", segments |-> segments]
ExprLit == [kind |-> "Lit"]
MemberNamed(i) == <<"Named", i>>
MemberUnnamed(index) == <<"Unnamed", index>>

RECURSIVE go(_, _)

\* An unnamed member skipped instead of refused.
go_skip_unnamed(current, v) ==
    IF current.kind = "Field" THEN
        IF current.member[1] = "Named"
            THEN go(current.base, Append(v, current.member[2]))
            ELSE go(current.base, v)
    ELSE IF current.kind = "Path" THEN
        IF Len(current.segments) # 1
            THEN Panic("Invalid name; this has collons in it")
            ELSE Returned(Append(v, current.segments[1]))
    ELSE Panic("Invalid input")

\* Each ident put in front of those found before it.
go_insert_front(current, v) ==
    IF current.kind = "Field" THEN
        IF current.member[1] = "Named"
            THEN go(current.base, <<current.member[2]>> \o v)
            ELSE Panic("Only named access is supported")
    ELSE IF current.kind = "Path" THEN
        IF Len(current.segments) # 1
            THEN Panic("Invalid name; this has collons in it")
            ELSE Returned(<<current.segments[1]>> \o v)
    ELSE Panic("Invalid input")

go(current, v) ==
    IF current.kind = "Field" THEN
        IF current.member[1] = "Named"
            THEN go(current.base, Append(v, current.member[2]))
            ELSE Panic("Only named access is supported")
    ELSE IF current.kind = "Path" THEN
        IF Len(current.segments) # 1
            THEN Panic("Invalid name; this has collons in it")
            ELSE Returned(Append(v, current.segments[1]))
    ELSE Panic("Invalid input")

find_idents_in_expr(e) == go(e, <<>>)

\* quote! { ::frunk_core::path::Path< ::frunk_core::hlist::HCons<#t, #acc> > }
PathCons(t, acc) == <<"::frunk_core::path::Path", "<", HConsType(t, acc), ">">>

\* The fold of build_path_type over the labels still to come.
RECURSIVE path_fold(_, _)
path_fold(iter, acc) ==
    IF iter = <<>> THEN acc
    ELSE path_fold(Tail(iter), PathCons(Head(iter), acc))

\* One Path marker around a plain list type of the labels.
build_path_type_single_marker(e) ==
    LET found == find_idents_in_expr(e)
    IN  IF IsPanic(found) THEN found
        ELSE Returned(<<"::frunk_core::path::Path", "<",
                        build_hlist_type(Reverse([i \in 1..Len(found.value) |->
                                                    build_label_type(found.value[i])])),
                        ">">>)

build_path_type(e) ==
    LET found == find_idents_in_expr(e)
    IN  IF IsPanic(found) THEN found
        ELSE Returned(path_fold([i \in 1..Len(found.value) |-> build_label_type(found.value[i])],
                                HNil))

(***************************************************************************)
(* Field Binding Model                                                     *)
(***************************************************************************)
\* Option<Ident>
Some(i) == <<i>>
None == <<>>

\* syn::Field, as far as the helpers read it: its ident and its type.
Field(ident_opt, ty) == [ident |-> ident_opt, ty |-> ty]

\* syn::Fields: Named, Unnamed or Unit; iter() yields the fields in order
\* (none for Unit).
FieldsNamed(fs) == [kind |-> "Named", iter |-> fs]
FieldsUnnamed(fs) == [kind |-> "Unnamed", iter |-> fs]
FieldsUnit == [kind |-> "Unit", iter |-> <<>>]

\* The decimal digits of n, as format!("{}", n) writes them.
RECURSIVE Decimal(_)
Decimal(n) == IF n < 10 THEN <<48 + n>> ELSE Append(Decimal(n \div 10), 48 + (n % 10))

\* The positional binding numbered from 1, not from 0.
FieldBindings_new_from_one(fs) ==
    [type_ |-> CASE fs.kind = "Named" -> "Named"
                 [] fs.kind = "Unnamed" -> "Tuple"
                 [] fs.kind = "Unit" -> "Unit",
     fields |-> [i \in 1..Len(fs.iter) |->
                    [field |-> fs.iter[i],
                     binding |-> IF fs.iter[i].ident # None
                                    THEN fs.iter[i].ident[1]
                                    ELSE <<95>> \o Decimal(i)]]]

\* FieldBindings::new: enumerate() counts from 0, the sequence from 1.
FieldBindings_new(fs) ==
    [type_ |-> CASE fs.kind = "Named" -> "Named"
                 [] fs.kind = "Unnamed" -> "Tuple"
                 [] fs.kind = "Unit" -> "Unit",
     fields |-> [i \in 1..Len(fs.iter) |->
                    LET index == i - 1
                        field == fs.iter[i]
                    IN  [field |-> field,
                         binding |-> IF field.ident # None
                                        THEN field.ident[1]
                                        ELSE <<95>> \o Decimal(index)]]]

\* Tokens of a TokenStream2: an identifier or keyword, a punctuation mark,
\* or a delimited group with the stream inside it.
IdentToken(text) == [kind |-> "ident", text |-> text, stream |-> <<>>]
PunctToken(text) == [kind |-> "punct", text |-> text, stream |-> <<>>]
GroupToken(delim, stream) == [kind |-> "group", text |-> delim, stream |-> stream]
Comma == PunctToken(",")
Brace == "{}"
Paren == "()"

\* FieldBinding::build: quote! { #binding }
build(b) == <<IdentToken(b.binding)>>

\* FieldBinding::build_pat_ref: quote! { ref #binding }
build_pat_ref(b) == <<IdentToken(<<114, 101, 102>>), IdentToken(b.binding)>>

\* FieldBinding::build_pat_mut: quote! { ref mut #binding }
build_pat_mut(b) ==
    <<IdentToken(<<114, 101, 102>>), IdentToken(<<109, 117, 116>>), IdentToken(b.binding)>>

\* FieldBinding::build_type: quote! { #ty }
build_type(b) == <<IdentToken(b.field.ty)>>

\* The closures the derives pass as f, by name.
PerFieldFns == {"build", "build_pat_ref", "build_pat_mut", "build_type"}

\* f(binding)
Call(f, b) ==
    CASE f = "build" -> build(b)
      [] f = "build_pat_ref" -> build_pat_ref(b)
      [] f = "build_pat_mut" -> build_pat_mut(b)
      [] f = "build_type" -> build_type(b)

\* The braces and the parentheses taken for each other.
build_type_constr_swapped(self, f) ==
    LET built == [i \in 1..Len(self.fields) |-> Call(f, self.fields[i])]
        repeated == Flatten([i \in 1..Len(built) |-> built[i] \o <<Comma>>])
    IN  CASE self.type_ = "Named" -> <<GroupToken(Paren, repeated)>>
          [] self.type_ = "Tuple" -> <<GroupToken(Brace, repeated)>>
          [] self.type_ = "Unit" -> <<>>

\* FieldBindings::build_type_constr: #(#bindings,)* writes each binding
\* followed by a comma.
build_type_constr(self, f) ==
    LET built == [i \in 1..Len(self.fields) |-> Call(f, self.fields[i])]
        repeated == Flatten([i \in 1..Len(built) |-> built[i] \o <<Comma>>])
    IN  CASE self.type_ = "Named" -> <<GroupToken(Brace, repeated)>>
          [] self.type_ = "Tuple" -> <<GroupToken(Paren, repeated)>>
          [] self.type_ = "Unit" -> <<>>

(***************************************************************************)
(* Generics Extender                                                       *)
(***************************************************************************)
\* syn::GenericParam: Lifetime(LifetimeDef), Type(TypeParam) or Const, each
\* with its name and, for the first two, its bounds.
GenericParam(kind, name, bounds) == [kind |-> kind, name |-> name, bounds |-> bounds]

\* LifetimeDef::new(lifetime): no bounds.
LifetimeDef_new(lifetime) == GenericParam("Lifetime", lifetime, <<>>)

\* Lifetime::new("'_frunk_ref_", Span::call_site())
ref_lifetime == "'_frunk_ref_"

\* The new lifetime put first, before the parameters there were.
ref_generics_new_first(g) ==
    LET constrained == [i \in 1..Len(g.params) |->
                          IF g.params[i].kind = "Lifetime"
                              THEN [g.params[i] EXCEPT !.bounds = Append(@, ref_lifetime)]
                              ELSE g.params[i]]
    IN  [g EXCEPT !.params = <<LifetimeDef_new(ref_lifetime)>> \o constrained]

ref_generics(g) ==
    LET generics_clone == g
        ref_lifetime_def == LifetimeDef_new(ref_lifetime)
        constrained == [i \in 1..Len(generics_clone.params) |->
                          IF generics_clone.params[i].kind = "Lifetime"
                              THEN [generics_clone.params[i] EXCEPT
                                        !.bounds = Append(@, ref_lifetime)]
                              ELSE generics_clone.params[i]]
    IN  [generics_clone EXCEPT !.params = Append(constrained, ref_lifetime_def)]

(***************************************************************************)
(* Inputs of the encoder and of the label builder.                         *)
(***************************************************************************)
\* Every char up to MaxChar, and chars of 4, 5 and 6 hex digits: U+2764,
\* U+FE0F, U+D7FF, U+E000, U+1F600, U+10FFFF.
Chars == (0..MaxChar) \cup {10084, 65039, 55295, 57344, 128512, 1114111}

\* 'u', 'e', '9', '_' and U+E9, whose escape \u{e9} spells u, e, 9.
NameChars == {117, 101, 57, 95, 233}

\* "first_name", the example of build_label_type's documentation.
first_name == <<102, 105, 114, 115, 116, 95, 110, 97, 109, 101>>

\* Identifiers of at most MaxLen chars (an identifier does not start with a
\* digit), and first_name.
Names ==
    {s \in UNION {[1..n -> NameChars] : n \in 1..MaxLen} : s[1] \notin 48..57}
        \cup {first_name}

IdleEncode   == c = 0 /\ encoded = NotCalled
IdleLabel    == ident = <<>> /\ label = NotCalled /\ prev_ident = <<>> /\ prev_label = NotCalled
IdleHList    == type_items = <<>> /\ hlist_type = NotCalled
                /\ constr_items = <<>> /\ hlist_constr = NotCalled
IdlePath     == path_expr = NotCalled /\ idents = NotCalled /\ path_type = NotCalled
IdleFields   == fields = NotCalled /\ bindings = NotCalled /\ per_field = "" /\ type_constr = <<>>
IdleGenerics == generics = NotCalled /\ generics_ref = NotCalled

(***************************************************************************)
(* SpecEncode: calls of encode_as_ident.                                   *)
(***************************************************************************)
EncodeAsIdent ==
    /\ \E ch \in Chars :
        /\ c' = ch
        /\ encoded' = encode_as_ident(ch)
    /\ UNCHANGED <<label_vars, hlist_vars, path_vars, fields_vars, generics_vars>>

InitEncode == IdleEncode /\ IdleLabel /\ IdleHList /\ IdlePath /\ IdleFields /\ IdleGenerics
NextEncode == EncodeAsIdent
SpecEncode == InitEncode /\ [][NextEncode]_vars

(***************************************************************************)
(* SpecLabel: two calls of build_label_type, one after the other.          *)
(***************************************************************************)
BuildLabelType ==
    /\ prev_ident = <<>>
    /\ \E id \in Names :
        /\ ident' = id
        /\ label' = build_label_type(id)
    /\ prev_ident' = ident
    /\ prev_label' = label
    /\ UNCHANGED <<encode_vars, hlist_vars, path_vars, fields_vars, generics_vars>>

InitLabel == IdleEncode /\ IdleLabel /\ IdleHList /\ IdlePath /\ IdleFields /\ IdleGenerics
NextLabel == BuildLabelType
SpecLabel == InitLabel /\ [][NextLabel]_vars

(***************************************************************************)
(* SpecHList: calls of build_hlist_type and of build_hlist_constr.         *)
(***************************************************************************)
Items == {"A", "B"}
ItemSeqs == UNION {[1..n -> Items] : n \in 0..MaxItems}

BuildHlistType ==
    /\ \E items \in ItemSeqs :
        /\ type_items' = items
        /\ hlist_type' = build_hlist_type(items)
    /\ UNCHANGED <<constr_items, hlist_constr>>
    /\ UNCHANGED <<encode_vars, label_vars, path_vars, fields_vars, generics_vars>>

BuildHlistConstr ==
    /\ \E items \in ItemSeqs :
        /\ constr_items' = items
        /\ hlist_constr' = build_hlist_constr(items)
    /\ UNCHANGED <<type_items, hlist_type>>
    /\ UNCHANGED <<encode_vars, label_vars, path_vars, fields_vars, generics_vars>>

InitHList == IdleEncode /\ IdleLabel /\ IdleHList /\ IdlePath /\ IdleFields /\ IdleGenerics
NextHList == BuildHlistType \/ BuildHlistConstr
SpecHList == InitHList /\ [][NextHList]_vars

(***************************************************************************)
(* SpecPath: find_idents_in_expr and build_path_type on one expression.    *)
(***************************************************************************)
\* a, a::b and a literal; .b, .c and .0
Terminals == {ExprPath(<< <<97>> >>), ExprPath(<< <<97>>, <<98>> >>), ExprLit}
Members == {MemberNamed(<<98>>), MemberNamed(<<99>>), MemberUnnamed(0)}

\* The expressions of at most d field accesses.
RECURSIVE Exprs(_)
Exprs(d) ==
    IF d = 0 THEN Terminals
    ELSE Terminals \cup {ExprField(b, m) : b \in Exprs(d - 1), m \in Members}

FindIdentsInExpr ==
    /\ idents' = find_idents_in_expr(path_expr)
    /\ UNCHANGED <<path_expr, path_type>>
    /\ UNCHANGED <<encode_vars, label_vars, hlist_vars, fields_vars, generics_vars>>

BuildPathType ==
    /\ path_type' = build_path_type(path_expr)
    /\ UNCHANGED <<path_expr, idents>>
    /\ UNCHANGED <<encode_vars, label_vars, hlist_vars, fields_vars, generics_vars>>

InitPath ==
    /\ path_expr \in Exprs(MaxDepth)
    /\ idents = NotCalled /\ path_type = NotCalled
    /\ IdleEncode /\ IdleLabel /\ IdleHList /\ IdleFields /\ IdleGenerics
NextPath == FindIdentsInExpr \/ BuildPathType
SpecPath == InitPath /\ [][NextPath]_vars

(***************************************************************************)
(* SpecFields: FieldBindings::new on one field list, then                  *)
(* build_type_constr on its result.                                        *)
(***************************************************************************)
\* a, b and _0; u8 and i32
FieldNames == {<<97>>, <<98>>, <<95, 48>>}
FieldTypes == {<<117, 56>>, <<105, 51, 50>>}

\* The field lists of at most MaxFields fields.  The names of a struct's or
\* variant's fields differ from each other (rustc's E0124 otherwise).
NamedLists ==
    {fs \in UNION {[1..n -> {Field(Some(i), ty) : i \in FieldNames, ty \in FieldTypes}]
                        : n \in 0..MaxFields} :
        \A i, j \in 1..Len(fs) : i # j => fs[i].ident # fs[j].ident}
UnnamedLists ==
    UNION {[1..n -> {Field(None, ty) : ty \in FieldTypes}] : n \in 0..MaxFields}
FieldLists ==
    {FieldsNamed(fs) : fs \in NamedLists} \cup {FieldsUnnamed(fs) : fs \in UnnamedLists}
        \cup {FieldsUnit}

New ==
    /\ bindings' = FieldBindings_new(fields)
    /\ UNCHANGED <<fields, per_field, type_constr>>
    /\ UNCHANGED <<encode_vars, label_vars, hlist_vars, path_vars, generics_vars>>

BuildTypeConstr ==
    /\ bindings # NotCalled
    /\ \E f \in PerFieldFns :
        /\ per_field' = f
        /\ type_constr' = build_type_constr(bindings, f)
    /\ UNCHANGED <<fields, bindings>>
    /\ UNCHANGED <<encode_vars, label_vars, hlist_vars, path_vars, generics_vars>>

InitFields ==
    /\ fields \in FieldLists
    /\ bindings = NotCalled /\ per_field = "" /\ type_constr = <<>>
    /\ IdleEncode /\ IdleLabel /\ IdleHList /\ IdlePath /\ IdleGenerics
NextFields == New \/ BuildTypeConstr
SpecFields == InitFields /\ [][NextFields]_vars

(***************************************************************************)
(* SpecGenerics: ref_generics on one parameter list.                       *)
(***************************************************************************)
\* 'a, 'a: 'b, 'b, T, T: Clone and const N
ParamChoices ==
    {GenericParam("Lifetime", "'a", <<>>), GenericParam("Lifetime", "'a", <<"'b">>),
     GenericParam("Lifetime", "'b", <<>>), GenericParam("Type", "T", <<>>),
     GenericParam("Type", "T", <<"Clone">>), GenericParam("Const", "N", <<>>)}
GenericsChoices == {[params |-> ps] : ps \in UNION {[1..n -> ParamChoices] : n \in 0..MaxParams}}

RefGenerics ==
    /\ generics_ref' = ref_generics(generics)
    /\ UNCHANGED generics
    /\ UNCHANGED <<encode_vars, label_vars, hlist_vars, path_vars, fields_vars>>

InitGenerics ==
    /\ generics \in GenericsChoices
    /\ generics_ref = NotCalled
    /\ IdleEncode /\ IdleLabel /\ IdleHList /\ IdlePath /\ IdleFields
NextGenerics == RefGenerics
SpecGenerics == InitGenerics /\ [][NextGenerics]_vars

(***************************************************************************)
(* Properties of the encoder and of the label builder.                     *)
(***************************************************************************)
Open_uc == <<95, 117, 99>>
Close_uc == <<117, 99, 95>>

\* The idents of a label, without the path each is qualified by.
LabelIdents(l) == [i \in 1..Len(l) |-> l[i][2]]

InClasses(ch) == ch \in ALPHA_CHARS \cup UNDERSCORE_CHARS

\* An ident that encodes one hexadecimal digit: a..f as it is, or _0.._9.
IsHexDigitIdent(id) ==
    \/ Len(id) = 1 /\ id[1] \in 97..102
    \/ Len(id) = 2 /\ id[1] = 95 /\ id[2] \in 48..57

HexDigitValue(id) == IF Len(id) = 1 THEN id[1] - 87 ELSE id[2] - 48

\* The number a sequence of hex-digit idents spells.
RECURSIVE HexValue(_)
HexValue(ids) ==
    IF ids = <<>> THEN 0
    ELSE 16 * HexValue(SubSeq(ids, 1, Len(ids) - 1)) + HexDigitValue(ids[Len(ids)])

\* C1: two calls of build_label_type on different names give different
\* labels (the label encoding is injective), whatever classes the chars of
\* the two names are in.
C1_LabelInjective ==
    (prev_ident # <<>> /\ ident # prev_ident) => label # prev_label

\* C1's case: U+E9 and "ue9", the name that spells the hex escape of U+E9.
C1_Witness ==
    /\ prev_ident = <<233>> /\ ident = <<117, 101, 57>>
    /\ LabelIdents(prev_label) = <<Open_uc, <<117>>, <<101>>, <<95, 57>>, Close_uc>>
    /\ LabelIdents(label) = <<<<117>>, <<101>>, <<95, 57>>>>

\* C2 as claimed: a char outside the three tables encodes as _uc, then
\* nothing but the encoded hex digits of its scalar value, then uc_.
C2_OnlyHexDigitsBetween ==
    (encoded # NotCalled /\ ~InClasses(c)) =>
        /\ encoded[1] = Open_uc
        /\ encoded[Len(encoded)] = Close_uc
        /\ \A i \in 2..(Len(encoded) - 1) : IsHexDigitIdent(encoded[i])

\* C2, amended: a char outside the three tables encodes as _uc, then the
\* letter u of the \u{..} escape, then the encoded hex digits of its scalar
\* value, most significant first and without leading zeros, then uc_; no
\* bracket marker is nested inside.
C2_EscapeShape ==
    (encoded # NotCalled /\ ~InClasses(c)) =>
        LET n == Len(encoded)
            digits == SubSeq(encoded, 3, n - 1)
        IN  /\ n >= 4
            /\ encoded[1] = Open_uc
            /\ encoded[n] = Close_uc
            /\ encoded[2] = <<117>>
            /\ \A i \in 1..Len(digits) : IsHexDigitIdent(digits[i])
            /\ HexValue(digits) = c
            /\ (Len(digits) > 1 => digits[1] # <<95, 48>>)
            /\ \A i \in 2..(n - 1) : encoded[i] \notin {Open_uc, Close_uc}

\* C2's case: U+2764 encodes as _uc u _2 _7 _6 _4 uc_.
C2_Witness ==
    /\ c = 10084
    /\ encoded = <<Open_uc, <<117>>, <<95, 50>>, <<95, 55>>, <<95, 54>>, <<95, 52>>, Close_uc>>

\* C3: a name of ASCII letters, digits and underscores gets one token per
\* char, in order: the letter itself, or the digit or underscore prefixed
\* with "_"; neither _uc nor uc_ appears.
C3_PlainNameOneTokenPerChar ==
    (ident # <<>> /\ \A i \in 1..Len(ident) : InClasses(ident[i])) =>
        /\ Len(label) = Len(ident)
        /\ \A i \in 1..Len(ident) :
            /\ label[i][1] = "::frunk_core::labelled::chars::"
            /\ label[i][2] = IF ident[i] \in (97..122) \cup (65..90)
                                THEN <<ident[i]>> ELSE <<95, ident[i]>>
            /\ label[i][2] \notin {Open_uc, Close_uc}

\* C3's case: "first_name" gives the ten tokens f,i,r,s,t,__,n,a,m,e.
C3_Witness ==
    /\ ident = first_name
    /\ LabelIdents(label) = << <<102>>, <<105>>, <<114>>, <<115>>, <<116>>, <<95, 95>>,
                               <<110>>, <<97>>, <<109>>, <<101>> >>

(***************************************************************************)
(* Properties of the list builders.                                        *)
(***************************************************************************)
\* t is a chain of build_hlist_type's cons cells that ends in HNil.
RECURSIVE IsTypeChain(_)
IsTypeChain(t) ==
    \/ t = HNil
    \/ /\ Len(t) = 6
       /\ <<t[1], t[2], t[4], t[6]>> = <<"::frunk_core::hlist::HCons", "<", ",", ">">>
       /\ IsTypeChain(t[5])

\* The heads of the cells of such a chain, outermost first.
RECURSIVE TypeChainHeads(_)
TypeChainHeads(t) == IF Len(t) = 1 THEN <<>> ELSE <<t[3]>> \o TypeChainHeads(t[5])

\* t is a chain of build_hlist_constr's cons cells that ends in HNil.
RECURSIVE IsConstrChain(_)
IsConstrChain(t) ==
    \/ t = HNil
    \/ /\ Len(t) = 10
       /\ <<t[1], t[2], t[3], t[4], t[6], t[7], t[8], t[10]>>
            = <<"::frunk_core::hlist::HCons", "{", "head", ":", ",", "tail", ":", "}">>
       /\ IsConstrChain(t[9])

RECURSIVE ConstrChainHeads(_)
ConstrChainHeads(t) == IF Len(t) = 1 THEN <<>> ELSE <<t[5]>> \o ConstrChainHeads(t[9])

\* C4: build_hlist_type(S) and build_hlist_constr(S) are chains of exactly
\* Len(S) nested cons cells ending in HNil, the head of the cell at depth i
\* being S[i]; for the empty S the result is HNil alone.
C4_ConsChainInOrder ==
    /\ hlist_type # NotCalled =>
        /\ IsTypeChain(hlist_type)
        /\ TypeChainHeads(hlist_type) = type_items
        /\ (type_items = <<>> => hlist_type = HNil)
    /\ hlist_constr # NotCalled =>
        /\ IsConstrChain(hlist_constr)
        /\ ConstrChainHeads(hlist_constr) = constr_items
        /\ (constr_items = <<>> => hlist_constr = HNil)

\* C4's case: [A, B, B] as a type, [B, A] as a constructor.
C4_Witness ==
    /\ type_items = <<"A", "B", "B">>
    /\ hlist_type = HConsType("A", HConsType("B", HConsType("B", HNil)))
    /\ constr_items = <<"B", "A">>
    /\ hlist_constr = HConsConstr("B", HConsConstr("A", HNil))

(***************************************************************************)
(* Properties of the path builder.                                         *)
(***************************************************************************)
\* Every layer of e is a named field access and its terminal is a path of
\* one segment.
RECURSIVE Supported(_)
Supported(e) ==
    IF e.kind = "Field" THEN e.member[1] = "Named" /\ Supported(e.base)
    ELSE e.kind = "Path" /\ Len(e.segments) = 1

\* The names of a supported expression in the order they are written.
RECURSIVE WrittenNames(_)
WrittenNames(e) ==
    IF e.kind = "Field" THEN Append(WrittenNames(e.base), e.member[2])
    ELSE <<e.segments[1]>>

\* The Path markers of a path type.
RECURSIVE PathMarkers(_)
PathMarkers(t) ==
    IF Len(t) = 1 THEN 0
    ELSE IF Len(t) = 4 THEN 1 + PathMarkers(t[3])
    ELSE PathMarkers(t[5])

\* t is HNil, or a Path marker around a cons cell whose tail is such a t.
RECURSIVE IsPathChain(_)
IsPathChain(t) ==
    \/ t = HNil
    \/ /\ Len(t) = 4
       /\ <<t[1], t[2], t[4]>> = <<"::frunk_core::path::Path", "<", ">">>
       /\ Len(t[3]) = 6
       /\ <<t[3][1], t[3][2], t[3][4], t[3][6]>> = <<"::frunk_core::hlist::HCons", "<", ",", ">">>
       /\ IsPathChain(t[3][5])

\* The heads of the cons cells of such a chain, outermost first.
RECURSIVE PathChainHeads(_)
PathChainHeads(t) == IF Len(t) = 1 THEN <<>> ELSE <<t[3][3]>> \o PathChainHeads(t[3][5])

LabelsOf(names) == [i \in 1..Len(names) |-> build_label_type(names[i])]

\* C5 as claimed: the path type of a supported expression of n names is one
\* Path marker, outermost, around a list type of n cons cells, with no Path
\* marker inside the chain.
C5_SinglePathMarker ==
    (path_type # NotCalled /\ Supported(path_expr)) =>
        /\ ~IsPanic(path_type)
        /\ Len(path_type.value) = 4
        /\ path_type.value[1] = "::frunk_core::path::Path"
        /\ PathMarkers(path_type.value) = 1
        /\ IsTypeChain(path_type.value[3])
        /\ Len(TypeChainHeads(path_type.value[3])) = Len(WrittenNames(path_expr))

\* C5, amended: the path type of a supported expression of n names has one
\* label per name and n cons cells, each cons cell wrapped in a Path marker
\* of its own: Path<HCons<l1, Path<HCons<l2, .. Path<HCons<ln, HNil>> ..>>>>,
\* the labels in the order the names are written.  There are n Path
\* markers, one of them outermost.
C5_PathMarkerPerCell ==
    (path_type # NotCalled /\ Supported(path_expr)) =>
        /\ ~IsPanic(path_type)
        /\ path_type.value[1] = "::frunk_core::path::Path"
        /\ IsPathChain(path_type.value)
        /\ PathChainHeads(path_type.value) = LabelsOf(WrittenNames(path_expr))
        /\ PathMarkers(path_type.value) = Len(WrittenNames(path_expr))

\* C5's case: a.b.c, three names, three Path markers.
C5_Witness ==
    /\ path_expr = ExprField(ExprField(ExprPath(<< <<97>> >>), MemberNamed(<<98>>)),
                             MemberNamed(<<99>>))
    /\ path_type # NotCalled
    /\ path_type.value =
        PathCons(<<LabelChar(<<97>>)>>,
            PathCons(<<LabelChar(<<98>>)>>,
                PathCons(<<LabelChar(<<99>>)>>, HNil)))

\* C6: for a chain x0.x1. .. .xk of named accesses on a one-segment
\* identifier, find_idents_in_expr returns the k+1 names in the reverse of
\* the written order, [xk, .., x1, x0].
C6_IdentsReversed ==
    (idents # NotCalled /\ Supported(path_expr)) =>
        /\ ~IsPanic(idents)
        /\ idents.value = Reverse(WrittenNames(path_expr))

\* C6's case: a.b.c gives [c, b, a].
C6_Witness ==
    /\ path_expr = ExprField(ExprField(ExprPath(<< <<97>> >>), MemberNamed(<<98>>)),
                             MemberNamed(<<99>>))
    /\ idents = Returned(<< <<99>>, <<98>>, <<97>> >>)

\* C7: find_idents_in_expr panics, returning no list, if and only if some
\* layer of the chain is an unnamed member access, or the terminal is a path
\* of several segments, or some layer is another kind of expression.
C7_PanicsIffUnsupported ==
    idents # NotCalled =>
        /\ IsPanic(idents) <=> ~Supported(path_expr)
        /\ IsPanic(idents) => DOMAIN idents = {"panic"}
        /\ ~IsPanic(idents) => DOMAIN idents = {"value"}

\* C7's case: a.0.b, an unnamed access below a named one.
C7_Witness ==
    /\ path_expr = ExprField(ExprField(ExprPath(<< <<97>> >>), MemberUnnamed(0)),
                             MemberNamed(<<98>>))
    /\ idents = Panic("Only named access is supported")

(***************************************************************************)
(* Properties of the generics extender.                                    *)
(***************************************************************************)
Lifetimes(g) == {i \in 1..Len(g.params) : g.params[i].kind = "Lifetime"}

\* What ref_generics(g) = r has to satisfy.
Extended(g, r) ==
    LET n == Len(g.params)
    IN  /\ Len(r.params) = n + 1
        /\ r.params[n + 1] = [kind |-> "Lifetime", name |-> "'_frunk_ref_", bounds |-> <<>>]
        /\ Cardinality(Lifetimes(r)) = Cardinality(Lifetimes(g)) + 1
        /\ \A i \in 1..n :
            /\ r.params[i].kind = g.params[i].kind
            /\ r.params[i].name = g.params[i].name
            /\ IF g.params[i].kind = "Lifetime"
                  THEN LET old == g.params[i].bounds
                           new == r.params[i].bounds
                       IN  /\ Len(new) = Len(old) + 1
                           /\ SubSeq(new, 1, Len(old)) = old
                           /\ new[Len(new)] = "'_frunk_ref_"
                  ELSE r.params[i] = g.params[i]

\* C8: ref_generics returns the original parameters in their order followed
\* by one new lifetime '_frunk_ref_ without bounds, in last position; there
\* is one lifetime more; every original lifetime keeps its bounds in order
\* and gains one bound, the new lifetime; the other parameters and their
\* bounds are unchanged; and the call leaves its argument as it was.
C8_RefGenerics ==
    [][Extended(generics, generics_ref') /\ generics' = generics]_vars

\* C8's case: <'a: 'b, T: Clone> becomes
\* <'a: 'b + '_frunk_ref_, T: Clone, '_frunk_ref_>.
C8_Witness ==
    /\ generics = [params |-> <<GenericParam("Lifetime", "'a", <<"'b">>),
                                GenericParam("Type", "T", <<"Clone">>)>>]
    /\ generics_ref = [params |-> <<GenericParam("Lifetime", "'a", <<"'b", "'_frunk_ref_">>),
                                    GenericParam("Type", "T", <<"Clone">>),
                                    GenericParam("Lifetime", "'_frunk_ref_", <<>>)>>]

(***************************************************************************)
(* Properties of the field binding model.                                  *)
(***************************************************************************)
\* _<index>, for the indexes below 100.
Positional(index) ==
    IF index < 10 THEN <<95, 48 + index>>
    ELSE <<95, 48 + (index \div 10), 48 + (index % 10)>>

\* C9: FieldBindings::new(fields) has one binding per field, in the same
\* order, the i-th holding the i-th field; the binding is the field's own
\* name for a named field and _<index> for a positional one; and the
\* bindings of one FieldBindings differ from each other.
C9_OneBindingPerField ==
    bindings # NotCalled =>
        /\ Len(bindings.fields) = Len(fields.iter)
        /\ \A i \in 1..Len(fields.iter) :
            /\ bindings.fields[i].field = fields.iter[i]
            /\ fields.kind = "Named" => <<bindings.fields[i].binding>> = fields.iter[i].ident
            /\ fields.kind = "Unnamed" => bindings.fields[i].binding = Positional(i - 1)
        /\ \A i, j \in 1..Len(bindings.fields) :
            i # j => bindings.fields[i].binding # bindings.fields[j].binding

\* C9's case: three positional fields bound to _0, _1 and _2.
C9_Witness ==
    /\ fields = FieldsUnnamed(<<Field(None, <<117, 56>>), Field(None, <<105, 51, 50>>),
                                Field(None, <<117, 56>>)>>)
    /\ bindings # NotCalled
    /\ [i \in 1..3 |-> bindings.fields[i].binding] = << <<95, 48>>, <<95, 49>>, <<95, 50>> >>

\* f applied to every binding, in order.
PerFieldResults == [i \in 1..Len(bindings.fields) |-> Call(per_field, bindings.fields[i])]

\* C10 as claimed: for the Named shape build_type_constr writes a brace
\* group of name: value pairs, for the Tuple shape a parenthesized group of
\* the per-field results, for the Unit shape nothing.
C10_NamedPairs ==
    per_field # "" =>
        CASE bindings.type_ = "Named" ->
                type_constr = <<GroupToken("{}",
                    Flatten([i \in 1..Len(bindings.fields) |->
                        <<IdentToken(bindings.fields[i].field.ident[1]), PunctToken(":")>>
                            \o PerFieldResults[i] \o <<PunctToken(",")>>]))>>
          [] bindings.type_ = "Tuple" ->
                type_constr = <<GroupToken("()",
                    Flatten([i \in 1..Len(bindings.fields) |->
                        PerFieldResults[i] \o <<PunctToken(",")>>]))>>
          [] bindings.type_ = "Unit" -> type_constr = <<>>

\* C10, amended: build_type_constr applies f to every binding in order and
\* writes, for the Named shape, a brace group of the per-field results, each
\* followed by a comma, with no field name and no colon of its own; for the
\* Tuple shape a parenthesized group of the per-field results, each followed
\* by a comma; for the Unit shape nothing, whatever f is.
C10_GroupOfResults ==
    per_field # "" =>
        CASE bindings.type_ = "Named" ->
                /\ Len(type_constr) = 1
                /\ type_constr[1].kind = "group" /\ type_constr[1].text = "{}"
                /\ type_constr[1].stream =
                    Flatten([i \in 1..Len(bindings.fields) |->
                        PerFieldResults[i] \o <<PunctToken(",")>>])
          [] bindings.type_ = "Tuple" ->
                /\ Len(type_constr) = 1
                /\ type_constr[1].kind = "group" /\ type_constr[1].text = "()"
                /\ type_constr[1].stream =
                    Flatten([i \in 1..Len(bindings.fields) |->
                        PerFieldResults[i] \o <<PunctToken(",")>>])
          [] bindings.type_ = "Unit" -> type_constr = <<>>

\* C10's case: { a: u8, b: i32 } with build_pat_ref gives { ref a, ref b, }.
C10_Witness ==
    /\ fields = FieldsNamed(<<Field(Some(<<97>>), <<117, 56>>),
                              Field(Some(<<98>>), <<105, 51, 50>>)>>)
    /\ per_field = "build_pat_ref"
    /\ type_constr = <<GroupToken("{}",
            <<IdentToken(<<114, 101, 102>>), IdentToken(<<97>>), PunctToken(","),
              IdentToken(<<114, 101, 102>>), IdentToken(<<98>>), PunctToken(",")>>)>>

====
